---- MODULE Spec2Model ----
(***************************************************************************)
(* Model of options_analyzer.py: the contract filter                       *)
(* (filter_options_by_investment), the return ranker                       *)
(* (calculate_annualized_returns), the scenario evaluator                  *)
(* (calculate_option_value) and the interactive pipeline main().           *)
(*                                                                         *)
(* Prices are integers (one unit = one dollar); a percent return is an     *)
(* exact fraction [n, d] in lowest terms.  An annualized return            *)
(*   ((1 + percent_return/100) ** (365/days) - 1) * 100                    *)
(* is kept as the pair [base, days] of the power's base and the day count: *)
(* for base >= 0 the value is strictly increasing in base for a fixed      *)
(* days, and two pairs denote the same number exactly when they are equal  *)
(* once the bases 0 and 1 (whose powers do not depend on days) carry       *)
(* days = 0.  The power overflows a double only for base > 6.99 (at        *)
(* days = 1), above every base the prices of this model produce.           *)
(***************************************************************************)
EXTENDS Integers, Sequences, FiniteSets, TLC

\* ------------------------------------------------------------------ bounds
MaxLen == 2
MaxStrike == 2
MaxPremium == 1
MaxExp == 2
MaxStock == 1

\* --------------------------------------------------------- python values
None == << >>
Some(v) == << v >>
IsNone(x) == x = << >>
Val(x) == x[1]

Ok(v) == [error |-> "none", value |-> v]
Raise(e) == [error |-> e, value |-> << >>]

Abs(x) == IF x < 0 THEN -x ELSE x

RECURSIVE GCD(_, _)
GCD(a, b) == IF b = 0 THEN a ELSE GCD(b, a % b)

\* the fraction n/d in lowest terms with a positive denominator (d # 0)
Rat(n, d) ==
    LET g == GCD(Abs(n), Abs(d))
        s == IF d < 0 THEN -1 ELSE 1
    IN  [n |-> (s * n) \div g, d |-> (s * d) \div g]

RatLT(a, b) == a.n * b.d < b.n * a.d

\* a float divided by zero: ZeroDivisionError for Python floats, and
\* inf / -inf / nan (a RuntimeWarning, no exception) for numpy.float64
NonFinite(n) == [n |-> IF n > 0 THEN 1 ELSE IF n < 0 THEN -1 ELSE 0, d |-> 0]
IsFinite(r) == r.d # 0

NumericTypes == {"float", "float64"}

\* (profit / investment) * 100
PercentOf(profit, investment, numeric) ==
    IF investment = 0
    THEN IF numeric = "float" THEN Raise("ZeroDivisionError")
                              ELSE Ok(NonFinite(profit))
    ELSE Ok(Rat(profit * 100, investment))

Zero == Rat(0, 1)

\* ((1 + (percent_return / 100)) ** (365 / days_to_expiration) - 1) * 100
Annualize(percent_return, days_to_expiration) ==
    IF ~IsFinite(percent_return)
    THEN [base |-> percent_return, days |-> days_to_expiration]
    ELSE LET base == Rat(percent_return.d * 100 + percent_return.n,
                         percent_return.d * 100)
         IN  [base |-> base,
              days |-> IF base \in {Rat(0, 1), Rat(1, 1)} THEN 0
                       ELSE days_to_expiration]

\* the literal 0 assigned to annualized_return
AnnualizedZero == [base |-> Rat(1, 1), days |-> 0]

\* a.annualized_return < b.annualized_return, both computed with one days
AnnLT(a, b) == RatLT(a.base, b.base)

\* ------------------------------------------------------------ strategies
strategies == [c |-> "call", p |-> "put", cc |-> "covered_call",
               csp |-> "cash_secured_put"]
Strategies == {"call", "put", "covered_call", "cash_secured_put"}
\* a strategy string outside the four the code branches on
OtherStrategy == "straddle"
AnyStrategies == Strategies \cup {OtherStrategy}

\* ----------------------------------------------------------- the chain
\* one row of the options DataFrame; row is its index label
Strikes == 1..MaxStrike
Premiums == 0..MaxPremium
Rows(n) == [1..n -> [strike : Strikes, lastPrice : Premiums]]
Chain(f) == [i \in DOMAIN f |-> [row |-> i, strike |-> f[i].strike,
                                 lastPrice |-> f[i].lastPrice]]
Chains == UNION {{Chain(f) : f \in Rows(n)} : n \in 0..MaxLen}

Budgets == {100 * i : i \in 0..MaxStrike}
Prices == 0..(MaxStrike + 1)
OptPrices == {None} \cup {Some(v) : v \in Prices}
StockPrices == {None} \cup {Some(v) : v \in 0..MaxStock}
FuturePrices == 0..MaxStrike

\* a row or dict whose value under key is None: a record holds only the
\* numbers that are known
unknown(d, key) == key \notin DOMAIN d

\* chains in which a row may have no strike or no lastPrice
RowShapes == {"whole", "no_lastPrice", "no_strike"}
PartialRow(i, strike, lastPrice, shape) ==
    IF shape = "whole"
    THEN [row |-> i, strike |-> strike, lastPrice |-> lastPrice]
    ELSE IF shape = "no_lastPrice" THEN [row |-> i, strike |-> strike]
    ELSE [row |-> i, lastPrice |-> lastPrice]
PartialRows(n) == [1..n -> [strike : Strikes, lastPrice : Premiums, shape : RowShapes]]
PartialChain(f) == [i \in DOMAIN f |-> PartialRow(i, f[i].strike, f[i].lastPrice, f[i].shape)]
PartialChains == UNION {{PartialChain(f) : f \in PartialRows(n)} : n \in 0..MaxLen}

\* ------------------------------------------------ filter_options_by_investment
\* contract_cost with the covered call paying the full share price
contract_cost_gross(strategy, strike, premium, stock_price) ==
    CASE strategy = "call" -> premium * 100
      [] strategy = "put" -> premium * 100
      [] strategy = "covered_call" -> Val(stock_price) * 100
      [] strategy = "cash_secured_put" -> (strike * 100) - (premium * 100)

contract_cost(strategy, strike, premium, stock_price) ==
    CASE strategy = "call" -> premium * 100
      [] strategy = "put" -> premium * 100
      [] strategy = "covered_call" -> (Val(stock_price) * 100) - (premium * 100)
      [] strategy = "cash_secured_put" -> (strike * 100) - (premium * 100)

breakeven(strategy, strike, premium, stock_price) ==
    CASE strategy = "call" -> strike + premium
      [] strategy = "put" -> strike - premium
      [] strategy = "covered_call" -> Val(stock_price) - premium
      [] strategy = "cash_secured_put" -> strike - premium

\* meets_breakeven_criteria with non-strict comparisons
meets_breakeven_criteria_inclusive(strategy, be, target_breakeven) ==
    IF IsNone(target_breakeven) THEN TRUE
    ELSE CASE strategy = "call" -> be <= Val(target_breakeven)
           [] strategy = "put" -> be >= Val(target_breakeven)
           [] strategy = "covered_call" -> be <= Val(target_breakeven)
           [] strategy = "cash_secured_put" -> be >= Val(target_breakeven)

meets_breakeven_criteria(strategy, be, target_breakeven) ==
    IF IsNone(target_breakeven) THEN TRUE
    ELSE CASE strategy = "call" -> be < Val(target_breakeven)
           [] strategy = "put" -> be > Val(target_breakeven)
           [] strategy = "covered_call" -> be < Val(target_breakeven)
           [] strategy = "cash_secured_put" -> be > Val(target_breakeven)

\* passes with the budget compared strictly
passes_below_budget(option, strategy, investment_amount, stock_price, target_breakeven) ==
    /\ contract_cost(strategy, option.strike, option.lastPrice, stock_price)
           < investment_amount
    /\ meets_breakeven_criteria(strategy,
           breakeven(strategy, option.strike, option.lastPrice, stock_price),
           target_breakeven)

\* the condition of line 139
passes(option, strategy, investment_amount, stock_price, target_breakeven) ==
    /\ contract_cost(strategy, option.strike, option.lastPrice, stock_price)
           <= investment_amount
    /\ meets_breakeven_criteria(strategy,
           breakeven(strategy, option.strike, option.lastPrice, stock_price),
           target_breakeven)

\* the dict appended at lines 140-147
candidate(option, strategy, investment_amount, stock_price) ==
    LET cost == contract_cost(strategy, option.strike, option.lastPrice, stock_price)
    IN  [strike |-> option.strike,
         premium |-> option.lastPrice,
         breakeven |-> breakeven(strategy, option.strike, option.lastPrice, stock_price),
         cost |-> cost,
         remaining_budget |-> investment_amount - cost,
         option_data |-> option]

\* list.sort(key=strike): stable, ascending
RECURSIVE insert_by_strike(_, _)
insert_by_strike(sorted, x) ==
    IF sorted = << >> THEN << x >>
    ELSE IF sorted[Len(sorted)].strike <= x.strike THEN Append(sorted, x)
    ELSE Append(insert_by_strike(SubSeq(sorted, 1, Len(sorted) - 1), x),
                sorted[Len(sorted)])

\* sort_by_strike without the sort
unsorted_by_strike(s) == s

RECURSIVE sort_by_strike(_)
sort_by_strike(s) ==
    IF s = << >> THEN << >>
    ELSE insert_by_strike(sort_by_strike(SubSeq(s, 1, Len(s) - 1)), s[Len(s)])

\* the loop of lines 110-147 over the rows in order
RECURSIVE filter_loop(_, _, _, _, _)
filter_loop(options, strategy, investment_amount, stock_price, target_breakeven) ==
    IF options = << >> THEN << >>
    ELSE LET rest == filter_loop(SubSeq(options, 1, Len(options) - 1), strategy,
                                 investment_amount, stock_price, target_breakeven)
             option == options[Len(options)]
         IN  IF passes(option, strategy, investment_amount, stock_price,
                       target_breakeven)
             THEN Append(rest, candidate(option, strategy, investment_amount,
                                         stock_price))
             ELSE rest

filter_options_by_investment(options, strategy, investment_amount, stock_price, target_breakeven) ==
    IF options = << >> THEN Ok(<< >>)
    ELSE IF strategy \notin Strategies
    THEN Raise("UnboundLocalError")   \* contract_cost is read unassigned
    ELSE IF strategy = "covered_call" /\ IsNone(stock_price)
    THEN Raise("TypeError")           \* None * 100
    ELSE IF \E i \in DOMAIN options :
                unknown(options[i], "strike") \/ unknown(options[i], "lastPrice")
    THEN Raise("TypeError")           \* arithmetic on None, nothing is caught
    ELSE Ok(sort_by_strike(filter_loop(options, strategy, investment_amount,
                                       stock_price, target_breakeven)))

\* ---------------------------------------------- calculate_annualized_returns
\* ranker_days without the floor at one day
ranker_days_unfloored(expiration_date, today_) == expiration_date - today_

\* max(1, (exp_date - today).days)
ranker_days(expiration_date, today_) ==
    IF expiration_date - today_ > 1 THEN expiration_date - today_ ELSE 1

\* lines 462-499: profit and investment of one candidate
ranker_profit(opt, strategy, target_price) ==
    LET strike == opt.strike
        premium == opt.premium
    IN  CASE strategy = "call" ->
               (IF target_price > strike THEN target_price - strike ELSE 0) - premium
          [] strategy = "put" ->
               (IF target_price < strike THEN strike - target_price ELSE 0) - premium
          [] strategy = "covered_call" ->
               LET current_price == IF "stock_price" \in DOMAIN opt
                                    THEN opt.stock_price ELSE strike
                   stock_profit == target_price - current_price
                   option_value == IF target_price > strike
                                   THEN -(target_price - strike) ELSE 0
               IN  stock_profit + premium + option_value
          [] strategy = "cash_secured_put" ->
               premium + (IF target_price < strike
                          THEN -(strike - target_price) ELSE 0)

\* ranker_investment with the collateral of a cash secured put net of the
\* premium received
ranker_investment_net(opt, strategy) ==
    CASE strategy = "call" -> opt.premium
      [] strategy = "put" -> opt.premium
      [] strategy = "covered_call" ->
           IF "stock_price" \in DOMAIN opt THEN opt.stock_price ELSE opt.strike
      [] strategy = "cash_secured_put" -> opt.strike - opt.premium

ranker_investment(opt, strategy) ==
    CASE strategy = "call" -> opt.premium
      [] strategy = "put" -> opt.premium
      [] strategy = "covered_call" ->
           IF "stock_price" \in DOMAIN opt THEN opt.stock_price ELSE opt.strike
      [] strategy = "cash_secured_put" -> opt.strike

\* lines 501-517: the dict appended for one candidate
ranked_result(opt, strategy, target_price, days_to_expiration) ==
    LET profit == ranker_profit(opt, strategy, target_price)
        investment == ranker_investment(opt, strategy)
        percent_return == IF investment > 0 THEN Rat(profit * 100, investment)
                          ELSE Zero
        annualized_return == IF investment > 0
                             THEN Annualize(percent_return, days_to_expiration)
                             ELSE AnnualizedZero
    IN  [strike |-> opt.strike,
         premium |-> opt.premium,
         breakeven |-> opt.breakeven,
         profit |-> profit,
         percent_return |-> percent_return,
         annualized_return |-> annualized_return,
         option_data |-> opt.option_data]

\* insert_by_return placing a candidate ahead of those of equal return
RECURSIVE insert_by_return_unstable(_, _)
insert_by_return_unstable(sorted, x) ==
    IF sorted = << >> THEN << x >>
    ELSE IF AnnLT(x.annualized_return, sorted[Len(sorted)].annualized_return)
    THEN Append(sorted, x)
    ELSE Append(insert_by_return_unstable(SubSeq(sorted, 1, Len(sorted) - 1), x),
                sorted[Len(sorted)])

\* list.sort(key=annualized_return, reverse=True): stable, descending
RECURSIVE insert_by_return(_, _)
insert_by_return(sorted, x) ==
    IF sorted = << >> THEN << x >>
    ELSE IF ~AnnLT(sorted[Len(sorted)].annualized_return, x.annualized_return)
    THEN Append(sorted, x)
    ELSE Append(insert_by_return(SubSeq(sorted, 1, Len(sorted) - 1), x),
                sorted[Len(sorted)])

RECURSIVE sort_by_return(_)
sort_by_return(s) ==
    IF s = << >> THEN << >>
    ELSE insert_by_return(sort_by_return(SubSeq(s, 1, Len(s) - 1)), s[Len(s)])

calculate_annualized_returns(filtered, strategy, target_price, expiration_date, today_) ==
    IF filtered = << >> THEN Ok(<< >>)
    ELSE IF strategy \notin Strategies
    THEN Raise("UnboundLocalError")   \* investment is read unassigned
    ELSE IF \E i \in DOMAIN filtered :
                unknown(filtered[i], "strike") \/ unknown(filtered[i], "premium")
    THEN Raise("TypeError")           \* arithmetic on None, nothing is caught
    ELSE Ok(sort_by_return(
              [i \in DOMAIN filtered |->
                  ranked_result(filtered[i], strategy, target_price,
                                ranker_days(expiration_date, today_))]))

\* ---------------------------------------------------- calculate_option_value
\* lines 303-307
evaluator_days(expiration_date, today_) ==
    IF expiration_date - today_ <= 0 THEN 1 ELSE expiration_date - today_

\* the return dict of lines 389-399
report(strategy, days, future_price, strike, premium, value, profit, percent_return) ==
    [strategy |-> strategy,
     days_to_expiration |-> days,
     future_price |-> future_price,
     strike |-> strike,
     premium |-> premium,
     value_at_expiration |-> value,
     profit |-> profit,
     percent_return |-> percent_return,
     annualized_return |-> Annualize(percent_return, days)]

\* the long option branches, lines 309-349
long_option_value(strategy, future_price, strike, premium, days) ==
    LET value == IF strategy = "call"
                 THEN (IF future_price > strike THEN future_price - strike ELSE 0)
                 ELSE (IF future_price < strike THEN strike - future_price ELSE 0)
        profit == value - premium
        percent_return == IF premium > 0 THEN Rat(profit * 100, premium) ELSE Zero
    IN  Ok(report(strategy, days, future_price, strike, premium, value, profit,
                  percent_return))

\* short_option_value with the sold call never costing anything
short_option_value_unexercised(strategy, future_price, strike, premium, current_price, days, numeric) ==
    LET option_value == IF strategy = "covered_call"
                        THEN 0
                        ELSE (IF future_price < strike
                              THEN -(strike - future_price) ELSE 0)
        profit == IF strategy = "covered_call"
                  THEN (future_price - Val(current_price)) + premium + option_value
                  ELSE premium + option_value
        investment == IF strategy = "covered_call" THEN Val(current_price)
                      ELSE strike
        percent_return == PercentOf(profit, investment, numeric)
    IN  IF strategy = "covered_call" /\ IsNone(current_price)
        THEN Raise("TypeError")
        ELSE IF percent_return.error # "none" THEN Raise(percent_return.error)
        ELSE Ok(report(strategy, days, future_price, strike, premium,
                       option_value, profit, percent_return.value))

\* the short option branches, lines 351-387
short_option_value(strategy, future_price, strike, premium, current_price, days, numeric) ==
    LET option_value == IF strategy = "covered_call"
                        THEN (IF future_price > strike
                              THEN -(future_price - strike) ELSE 0)
                        ELSE (IF future_price < strike
                              THEN -(strike - future_price) ELSE 0)
        profit == IF strategy = "covered_call"
                  THEN (future_price - Val(current_price)) + premium + option_value
                  ELSE premium + option_value
        investment == IF strategy = "covered_call" THEN Val(current_price)
                      ELSE strike
        percent_return == PercentOf(profit, investment, numeric)
    IN  IF strategy = "covered_call" /\ IsNone(current_price)
        THEN Raise("TypeError")       \* future_price - None
        ELSE IF percent_return.error # "none" THEN Raise(percent_return.error)
        ELSE Ok(report(strategy, days, future_price, strike, premium,
                       option_value, profit, percent_return.value))

calculate_option_value(strategy, future_price, selected_data, expiration_date, today_, numeric) ==
    LET current_price == selected_data.stock_price
        days == evaluator_days(expiration_date, today_)
        side == IF strategy \in {"call", "covered_call"} THEN "call" ELSE "put"
        has == IF side = "call" THEN "call_strike" \in DOMAIN selected_data
               ELSE "put_strike" \in DOMAIN selected_data
        strike == IF side = "call" THEN selected_data.call_strike
                  ELSE selected_data.put_strike
        premium == IF side = "call" THEN selected_data.call_option.lastPrice
                   ELSE selected_data.put_option.lastPrice
    IN  IF strategy \notin Strategies
        THEN Raise("UnboundLocalError")   \* option_value is read unassigned
        ELSE IF ~has THEN Raise("KeyError")
        ELSE IF strategy \in {"call", "put"}
        THEN long_option_value(strategy, future_price, strike, premium, days)
        ELSE short_option_value(strategy, future_price, strike, premium,
                                current_price, days, numeric)

\* lines 739-748 of main
selected_data_of(strategy, stock_price, option_choice) ==
    IF strategy \in {"call", "covered_call"}
    THEN [stock_price |-> stock_price,
          call_strike |-> option_choice.strike,
          call_option |-> option_choice.option_data]
    ELSE [stock_price |-> stock_price,
          put_strike |-> option_choice.strike,
          put_option |-> option_choice.option_data]

\* ------------------------------------------------------------ calculate_pnl
\* the bounds the strategy summary prints: maximum_loss and maximum_profit,
\* None where the summary names no amount
calculate_pnl(strategy, stock_price_, selected_data) ==
    LET current == IF IsNone(stock_price_) THEN selected_data.stock_price
                   ELSE stock_price_
        side == IF strategy \in {"call", "covered_call"} THEN "call" ELSE "put"
        has == IF side = "call" THEN "call_strike" \in DOMAIN selected_data
               ELSE "put_strike" \in DOMAIN selected_data
        strike == IF side = "call" THEN selected_data.call_strike
                  ELSE selected_data.put_strike
        premium == IF side = "call" THEN selected_data.call_option.lastPrice
                   ELSE selected_data.put_option.lastPrice
    IN  IF strategy \notin Strategies
        THEN Ok([maximum_loss |-> None, maximum_profit |-> None])
        ELSE IF ~has THEN Raise("KeyError")
        ELSE IF strategy = "call"
        THEN Ok([maximum_loss |-> Some(premium), maximum_profit |-> None])
        ELSE IF strategy = "put"
        THEN Ok([maximum_loss |-> Some(premium),
                 maximum_profit |-> Some(strike - premium)])
        ELSE IF strategy = "covered_call"
        THEN IF IsNone(current) THEN Raise("TypeError")   \* None formatted .2f
             ELSE Ok([maximum_loss |-> None,
                      maximum_profit |-> Some(strike - Val(current) + premium)])
        ELSE Ok([maximum_loss |-> Some(strike - premium),
                 maximum_profit |-> Some(premium)])

\* ------------------------------------------------------------- parse_float
\* an input line: text that reads as the number v, as written or once $ and
\* commas are removed, or text that is no number
Lines(values) == {[form |-> "number", v |-> x] : x \in values}
                   \cup {[form |-> "junk", v |-> 0]}

parse_float(input_str) ==
    IF input_str.form = "number" THEN Ok(input_str.v) ELSE Raise("ValueError")

\* ------------------------------------------------------------- variables
\* main's locals (options is the side of the chain main hands to the filter:
\* calls for call and covered_call, puts for put and cash_secured_put), the
\* clock, what main printed when it stopped, and the record of a direct call
VARIABLES pc, stock_price, selected_expiration, today, selected_strategy,
          options, investment_amount, future_price, filtered_options,
          options_by_return, option_choice, future_results, exit_status,
          exit_message, call

vars == << pc, stock_price, selected_expiration, today, selected_strategy,
           options, investment_amount, future_price, filtered_options,
           options_by_return, option_choice, future_results, exit_status,
           exit_message, call >>

main_vars == << pc, stock_price, selected_expiration, today, selected_strategy,
                investment_amount, future_price, filtered_options,
                options_by_return, option_choice, future_results, exit_status,
                exit_message >>

NoCall == [fn |-> "none"]

\* day numbers; the evaluation date is day 0
Expirations == (-1)..MaxExp

\* -------------------------------------------------------------------- main
\* after lines 559-629: ticker, price and expiration retrieved
Init ==
    /\ pc = "strategy_prompt"
    /\ stock_price \in StockPrices
    /\ selected_expiration \in Expirations
    /\ today = 0
    /\ selected_strategy = None
    /\ options = << >>
    /\ investment_amount = None
    /\ future_price = None
    /\ filtered_options = << >>
    /\ options_by_return = << >>
    /\ option_choice = None
    /\ future_results = None
    /\ exit_status = None
    /\ exit_message = None
    /\ call = NoCall

\* lines 631-638: one answer to the strategy prompt
SelectStrategy ==
    /\ pc = "strategy_prompt"
    /\ \E strategy_choice \in {"c", "p", "cc", "csp", "x"} :
         IF strategy_choice \in DOMAIN strategies
         THEN /\ selected_strategy' = Some(strategies[strategy_choice])
              /\ options' \in Chains
              /\ pc' = "amount_prompt"
         ELSE UNCHANGED << selected_strategy, options, pc >>
    /\ UNCHANGED << stock_price, selected_expiration, today, investment_amount,
                    future_price, filtered_options, options_by_return,
                    option_choice, future_results, exit_status, exit_message,
                    call >>

\* lines 642-657: one answer to the investment prompt
EnterAmount ==
    /\ pc = "amount_prompt"
    /\ \E amount_input \in Lines(Budgets) :
         LET parsed == parse_float(amount_input)
         IN  IF parsed.error # "none"
             THEN UNCHANGED << investment_amount, pc >>
             ELSE IF parsed.value <= 0
             THEN UNCHANGED << investment_amount, pc >>
             ELSE /\ investment_amount' = Some(parsed.value)
                  /\ pc' = "price_prompt"
    /\ UNCHANGED << stock_price, selected_expiration, today, selected_strategy,
                    options, future_price, filtered_options, options_by_return,
                    option_choice, future_results, exit_status, exit_message,
                    call >>

\* RunPipeline without the check of lines 684-687 for an empty filter result
RunPipeline_unchecked(price) ==
    LET strategy == Val(selected_strategy)
        filtered == filter_options_by_investment(options, strategy,
                        Val(investment_amount), stock_price, None)
        ranked == calculate_annualized_returns(filtered.value, strategy, price,
                        selected_expiration, today)
    IN  IF strategy = "covered_call" /\ IsNone(stock_price)
        THEN /\ exit_message' = Some("stock_price_required")
             /\ exit_status' = Some(1)
             /\ pc' = "exited"
             /\ UNCHANGED << filtered_options, options_by_return >>
        ELSE /\ filtered_options' = filtered.value
             /\ options_by_return' = ranked.value
             /\ pc' = "option_prompt"
             /\ UNCHANGED << exit_status, exit_message >>

\* lines 671-690 once the expected price is accepted: filter, the empty
\* check and the ranker
RunPipeline(price) ==
    LET strategy == Val(selected_strategy)
        filtered == filter_options_by_investment(options, strategy,
                        Val(investment_amount), stock_price, None)
        ranked == calculate_annualized_returns(filtered.value, strategy, price,
                        selected_expiration, today)
    IN  IF strategy = "covered_call" /\ IsNone(stock_price)
        THEN /\ exit_message' = Some("stock_price_required")
             /\ exit_status' = Some(1)
             /\ pc' = "exited"
             /\ UNCHANGED << filtered_options, options_by_return >>
        ELSE IF filtered.value = << >>
        THEN /\ exit_message' = Some("no_matches")
             /\ exit_status' = Some(0)
             /\ pc' = "exited"
             /\ UNCHANGED << filtered_options, options_by_return >>
        ELSE /\ filtered_options' = filtered.value
             /\ options_by_return' = ranked.value
             /\ pc' = "option_prompt"
             /\ UNCHANGED << exit_status, exit_message >>

\* lines 661-690: one answer to the expected price prompt
EnterFuturePrice ==
    /\ pc = "price_prompt"
    /\ \E price_input \in Lines(FuturePrices) :
         LET parsed == parse_float(price_input)
         IN  IF parsed.error # "none"
             THEN UNCHANGED << future_price, filtered_options,
                               options_by_return, exit_status, exit_message, pc >>
             ELSE IF parsed.value <= 0
             THEN UNCHANGED << future_price, filtered_options,
                               options_by_return, exit_status, exit_message, pc >>
             ELSE /\ future_price' = Some(parsed.value)
                  /\ RunPipeline(parsed.value)
    /\ UNCHANGED << stock_price, selected_expiration, today, selected_strategy,
                    options, investment_amount, option_choice, future_results,
                    call >>

\* what may be typed at the selection prompt
ChoiceInputs ==
    {[form |-> "q", v |-> 0], [form |-> "junk", v |-> 0]}
        \cup {[form |-> "int", v |-> n] : n \in 0..(MaxLen + 1)}

\* SelectOptionInput taking the number typed as the list index
SelectOptionInput_zero_based(choice_input) ==
    /\ pc = "option_prompt"
    /\ IF choice_input.form = "q"
       THEN /\ exit_message' = Some("exiting")
            /\ exit_status' = Some(0)
            /\ pc' = "exited"
            /\ UNCHANGED << option_choice, future_results >>
       ELSE IF choice_input.form = "junk"
       THEN UNCHANGED << option_choice, future_results, exit_status,
                         exit_message, pc >>
       ELSE LET choice_idx == choice_input.v
            IN  IF 0 <= choice_idx /\ choice_idx < Len(options_by_return)
                THEN LET chosen == options_by_return[choice_idx + 1] IN
                     /\ option_choice' = Some(chosen)
                     /\ \E results \in
                              {calculate_option_value(
                                   Val(selected_strategy), Val(future_price),
                                   selected_data_of(Val(selected_strategy),
                                                    stock_price, chosen),
                                   selected_expiration, today, numeric) :
                               numeric \in NumericTypes} :
                            IF results.error = "none"
                            THEN /\ future_results' = Some(results.value)
                                 /\ exit_message' = Some("future_results")
                                 /\ exit_status' = Some(0)
                                 /\ pc' = "done"
                            ELSE /\ future_results' = None
                                 /\ exit_message' = Some(results.error)
                                 /\ exit_status' = Some(1)
                                 /\ pc' = "crashed"
                ELSE UNCHANGED << option_choice, future_results,
                                  exit_status, exit_message, pc >>
    /\ UNCHANGED << stock_price, selected_expiration, today, selected_strategy,
                    options, investment_amount, future_price, filtered_options,
                    options_by_return, call >>

\* lines 724-757: one answer to the selection prompt
SelectOptionInput(choice_input) ==
    /\ pc = "option_prompt"
    /\ IF choice_input.form = "q"
       THEN /\ exit_message' = Some("exiting")
            /\ exit_status' = Some(0)
            /\ pc' = "exited"
            /\ UNCHANGED << option_choice, future_results >>
       ELSE IF choice_input.form = "junk"
       THEN UNCHANGED << option_choice, future_results, exit_status,
                         exit_message, pc >>
       ELSE LET choice_idx == choice_input.v - 1
            IN  IF 0 <= choice_idx /\ choice_idx < Len(options_by_return)
                THEN LET chosen == options_by_return[choice_idx + 1] IN
                     /\ option_choice' = Some(chosen)
                     /\ \E results \in
                              {calculate_option_value(
                                   Val(selected_strategy), Val(future_price),
                                   selected_data_of(Val(selected_strategy),
                                                    stock_price, chosen),
                                   selected_expiration, today, numeric) :
                               numeric \in NumericTypes} :
                            IF results.error = "none"
                            THEN /\ future_results' = Some(results.value)
                                 /\ exit_message' = Some("future_results")
                                 /\ exit_status' = Some(0)
                                 /\ pc' = "done"
                            ELSE /\ future_results' = None
                                 /\ exit_message' = Some(results.error)
                                 /\ exit_status' = Some(1)
                                 /\ pc' = "crashed"
                ELSE UNCHANGED << option_choice, future_results,
                                  exit_status, exit_message, pc >>
    /\ UNCHANGED << stock_price, selected_expiration, today, selected_strategy,
                    options, investment_amount, future_price, filtered_options,
                    options_by_return, call >>

SelectOption == \E choice_input \in ChoiceInputs : SelectOptionInput(choice_input)

Next ==
    \/ SelectStrategy
    \/ EnterAmount
    \/ EnterFuturePrice
    \/ SelectOption

Spec == Init /\ [][Next]_vars

\* ------------------------------------------ direct calls of the filter
InitFilter ==
    /\ options \in Chains
    /\ call = NoCall
    /\ pc = "direct"
    /\ stock_price = None
    /\ selected_expiration = 0
    /\ today = 0
    /\ selected_strategy = None
    /\ investment_amount = None
    /\ future_price = None
    /\ filtered_options = << >>
    /\ options_by_return = << >>
    /\ option_choice = None
    /\ future_results = None
    /\ exit_status = None
    /\ exit_message = None

CallFilter ==
    /\ pc = "direct"
    /\ call.fn = "none"
    /\ \E strategy \in AnyStrategies, amount \in Budgets,
          price \in OptPrices, target_breakeven \in OptPrices :
         call' = [fn |-> "filter",
                  strategy |-> strategy,
                  investment_amount |-> amount,
                  stock_price |-> price,
                  target_breakeven |-> target_breakeven,
                  result |-> filter_options_by_investment(options, strategy,
                                 amount, price, target_breakeven)]
    /\ UNCHANGED options
    /\ UNCHANGED main_vars

NextFilter == CallFilter

SpecFilter == InitFilter /\ [][NextFilter]_vars

\* ------------------- direct calls of the filter, the ranker, the evaluator
\* the ranker called on what a filter call returned
CallRanker ==
    /\ call.fn = "filter"
    /\ call.result.error = "none"
    /\ \E strategy \in AnyStrategies, target_price \in FuturePrices \ {0},
          expiration_date \in Expirations :
         call' = [fn |-> "ranker",
                  candidates |-> call.result.value,
                  strategy |-> strategy,
                  target_price |-> target_price,
                  expiration_date |-> expiration_date,
                  result |-> calculate_annualized_returns(call.result.value,
                                 strategy, target_price, expiration_date, today)]
    /\ UNCHANGED options
    /\ UNCHANGED main_vars

\* the evaluator called on one row of the chain, with the dict main builds
\* for the strategy built_for
CallEvaluator ==
    /\ pc = "direct"
    /\ call.fn = "none"
    /\ \E i \in DOMAIN options, built_for \in Strategies,
          strategy \in AnyStrategies, price \in StockPrices,
          target_price \in FuturePrices \ {0}, expiration_date \in Expirations,
          numeric \in NumericTypes :
         LET selected_data ==
                 selected_data_of(built_for, price,
                     [strike |-> options[i].strike, option_data |-> options[i]])
         IN  call' = [fn |-> "evaluator",
                      selected_data |-> selected_data,
                      strategy |-> strategy,
                      future_price |-> target_price,
                      expiration_date |-> expiration_date,
                      numeric |-> numeric,
                      result |-> calculate_option_value(strategy, target_price,
                                     selected_data, expiration_date, today,
                                     numeric)]
    /\ UNCHANGED options
    /\ UNCHANGED main_vars

NextApi ==
    \/ CallFilter
    \/ CallRanker
    \/ CallEvaluator

SpecApi == InitFilter /\ [][NextApi]_vars

\* ------------- filter, ranker and evaluator on a chain of realistic prices
ExampleChains ==
    {<< [row |-> 1, strike |-> 40, lastPrice |-> 1] >>,
     << [row |-> 1, strike |-> 40, lastPrice |-> 1],
        [row |-> 2, strike |-> 45, lastPrice |-> 2] >>}

ExampleBudgets == {0, 100, 3900, 4500}
ExampleStockPrices == {None, Some(40)}
ExampleFuturePrices == {35, 40, 50}

InitExample ==
    /\ options \in ExampleChains
    /\ call = NoCall
    /\ pc = "example"
    /\ stock_price \in ExampleStockPrices
    /\ selected_expiration \in Expirations
    /\ today = 0
    /\ selected_strategy = None
    /\ investment_amount = None
    /\ future_price = None
    /\ filtered_options = << >>
    /\ options_by_return = << >>
    /\ option_choice = None
    /\ future_results = None
    /\ exit_status = None
    /\ exit_message = None

\* the filter as main calls it at lines 672-682
ExampleFilter ==
    /\ pc = "example"
    /\ call.fn = "none"
    /\ \E strategy \in Strategies, amount \in ExampleBudgets :
         /\ strategy = "covered_call" => ~IsNone(stock_price)
         /\ call' = [fn |-> "filter",
                     strategy |-> strategy,
                     result |-> filter_options_by_investment(options, strategy,
                                    amount, stock_price, None)]
    /\ UNCHANGED options
    /\ UNCHANGED main_vars

\* the ranker on the filter's candidates, line 690
ExampleRanker ==
    /\ pc = "example"
    /\ call.fn = "filter"
    /\ call.result.value # << >>
    /\ \E target_price \in ExampleFuturePrices :
         call' = [fn |-> "ranker",
                  strategy |-> call.strategy,
                  future_price |-> target_price,
                  result |-> calculate_annualized_returns(call.result.value,
                                 call.strategy, target_price,
                                 selected_expiration, today)]
    /\ UNCHANGED options
    /\ UNCHANGED main_vars

\* the evaluator on one ranked result, lines 739-754
ExampleEvaluator ==
    /\ pc = "example"
    /\ call.fn = "ranker"
    /\ \E i \in DOMAIN call.result.value :
         LET chosen == call.result.value[i] IN
         \E results \in
               {calculate_option_value(
                    call.strategy, call.future_price,
                    selected_data_of(call.strategy, stock_price, chosen),
                    selected_expiration, today, numeric) :
                numeric \in NumericTypes} :
             call' = [fn |-> "evaluator",
                      strategy |-> call.strategy,
                      future_price |-> call.future_price,
                      ranked |-> chosen,
                      result |-> results]
    /\ UNCHANGED options
    /\ UNCHANGED main_vars

NextExample ==
    \/ ExampleFilter
    \/ ExampleRanker
    \/ ExampleEvaluator

SpecExample == InitExample /\ [][NextExample]_vars

\* -------------------- the strategy summary and the evaluator on one contract
\* lines 739-754 for one row of the chain, at any future price from 0
EvaluateScenario ==
    /\ pc = "direct"
    /\ call.fn = "none"
    /\ \E i \in DOMAIN options, strategy \in Strategies, price \in StockPrices,
          target_price \in Prices, numeric \in NumericTypes :
         LET selected_data ==
                 selected_data_of(strategy, price,
                     [strike |-> options[i].strike, option_data |-> options[i]])
         IN  call' = [fn |-> "scenario",
                      strategy |-> strategy,
                      selected_data |-> selected_data,
                      future_price |-> target_price,
                      numeric |-> numeric,
                      summary |-> calculate_pnl(strategy, price, selected_data),
                      result |-> calculate_option_value(strategy, target_price,
                                     selected_data, selected_expiration, today,
                                     numeric)]
    /\ UNCHANGED options
    /\ UNCHANGED main_vars

NextScenario == EvaluateScenario

SpecScenario == InitFilter /\ [][NextScenario]_vars

\* ------------------- filter and ranker on chains with incomplete contracts
InitBatch ==
    /\ options \in PartialChains
    /\ call = NoCall
    /\ pc = "batch"
    /\ stock_price = None
    /\ selected_expiration = 0
    /\ today = 0
    /\ selected_strategy = None
    /\ investment_amount = None
    /\ future_price = None
    /\ filtered_options = << >>
    /\ options_by_return = << >>
    /\ option_choice = None
    /\ future_results = None
    /\ exit_status = None
    /\ exit_message = None

BatchFilter ==
    /\ pc = "batch"
    /\ call.fn = "none"
    /\ \E strategy \in Strategies, amount \in Budgets, price \in OptPrices \ {None} :
         call' = [fn |-> "filter",
                  strategy |-> strategy,
                  investment_amount |-> amount,
                  stock_price |-> price,
                  result |-> filter_options_by_investment(options, strategy,
                                 amount, price, None)]
    /\ UNCHANGED options
    /\ UNCHANGED main_vars

\* the candidate dict of a row, its premium and strike as the row has them
dict_of_row(option) ==
    IF unknown(option, "strike") THEN [premium |-> option.lastPrice, option_data |-> option]
    ELSE IF unknown(option, "lastPrice") THEN [strike |-> option.strike, option_data |-> option]
    ELSE [strike |-> option.strike, premium |-> option.lastPrice,
          breakeven |-> option.strike, option_data |-> option]

BatchRanker ==
    /\ pc = "batch"
    /\ call.fn = "none"
    /\ \E strategy \in Strategies, target_price \in FuturePrices \ {0} :
         LET candidates == [i \in DOMAIN options |-> dict_of_row(options[i])]
         IN  call' = [fn |-> "ranker",
                      strategy |-> strategy,
                      candidates |-> candidates,
                      result |-> calculate_annualized_returns(candidates,
                                     strategy, target_price,
                                     selected_expiration, today)]
    /\ UNCHANGED options
    /\ UNCHANGED main_vars

NextBatch ==
    \/ BatchFilter
    \/ BatchRanker

SpecBatch == InitBatch /\ [][NextBatch]_vars

\* ------------------------- main's runs together with direct filter calls
InitMainOrFilter == Init \/ InitFilter

NextMainOrFilter ==
    \/ Next
    \/ NextFilter

SpecMainOrFilter == InitMainOrFilter /\ [][NextMainOrFilter]_vars

\* ======================================================== the claims
\* the payoff table of the specification, K = strike, P = premium,
\* S = underlying price at entry, F = future price
TableCost(strategy, K, P, S) ==
    IF strategy \in {"call", "put"} THEN 100 * P
    ELSE IF strategy = "covered_call" THEN 100 * (S - P)
    ELSE 100 * (K - P)

TableBreakeven(strategy, K, P, S) ==
    IF strategy = "call" THEN K + P
    ELSE IF strategy = "covered_call" THEN S - P
    ELSE K - P

\* breakeven admissibility: below the target for the call strategies, above
\* it for the put strategies, anything when no target is given
Admissible(strategy, be, target) ==
    \/ IsNone(target)
    \/ strategy \in {"call", "covered_call"} /\ be < Val(target)
    \/ strategy \in {"put", "cash_secured_put"} /\ be > Val(target)

\* a direct call of the filter that returned
FilterReturned ==
    /\ call.fn = "filter"
    /\ call.strategy \in Strategies
    /\ call.result.error = "none"

\* the underlying price of the call (0 stands in where none is needed)
CallS == IF IsNone(call.stock_price) THEN 0 ELSE Val(call.stock_price)

Returned(option) ==
    \E i \in DOMAIN call.result.value : call.result.value[i].option_data = option

\* C1: the filter returns a contract if and only if its cost is at most
\* investment_amount and its breakeven is admissible for the strategy
C1_IncludedIffAffordableAndAdmissible ==
    (FilterReturned /\ (call.strategy = "covered_call" => ~IsNone(call.stock_price)))
    => /\ \A i \in DOMAIN options :
            Returned(options[i])
            <=> /\ TableCost(call.strategy, options[i].strike,
                             options[i].lastPrice, CallS) <= call.investment_amount
                /\ Admissible(call.strategy,
                              TableBreakeven(call.strategy, options[i].strike,
                                             options[i].lastPrice, CallS),
                              call.target_breakeven)
       /\ \A j \in DOMAIN call.result.value :
            call.result.value[j].cost <= call.investment_amount

\* a call on two contracts that dropped one and kept one whose cost equals
\* the budget
C1_Witness ==
    /\ FilterReturned
    /\ Len(options) = 2
    /\ Len(call.result.value) = 1
    /\ call.result.value[1].cost = call.investment_amount
    /\ call.investment_amount > 0

\* C2: the output is a sub-multiset of the input rows, ordered by
\* non-decreasing strike, rows of equal strike in their input order
C2_SortedStableSubsequence ==
    FilterReturned
    => LET out == call.result.value IN
       /\ \A j \in DOMAIN out :
            /\ out[j].option_data.row \in DOMAIN options
            /\ options[out[j].option_data.row] = out[j].option_data
            /\ out[j].strike = out[j].option_data.strike
       /\ \A j, k \in DOMAIN out :
            j < k => /\ out[j].option_data.row # out[k].option_data.row
                     /\ out[j].strike <= out[k].strike
                     /\ (out[j].strike = out[k].strike
                         => out[j].option_data.row < out[k].option_data.row)

\* both rows returned, the input in descending strike order
C2_WitnessReordered ==
    /\ FilterReturned
    /\ Len(call.result.value) = 2
    /\ options[1].strike > options[2].strike

\* C3: with a target T every returned candidate has breakeven < T (call,
\* covered_call) or breakeven > T (put, cash_secured_put), strictly; with no
\* target every contract within the budget is returned
C3_BreakevenAdmissibility ==
    FilterReturned
    => LET out == call.result.value
           T == call.target_breakeven
       IN  /\ ~IsNone(T)
              => \A j \in DOMAIN out :
                   /\ call.strategy \in {"call", "covered_call"}
                        => out[j].breakeven < Val(T)
                   /\ call.strategy \in {"put", "cash_secured_put"}
                        => out[j].breakeven > Val(T)
           /\ (IsNone(T) /\ (call.strategy = "covered_call"
                               => ~IsNone(call.stock_price)))
              => \A i \in DOMAIN options :
                   TableCost(call.strategy, options[i].strike,
                             options[i].lastPrice, CallS) <= call.investment_amount
                   => Returned(options[i])

\* a target equal to the breakeven of an affordable contract, which is rejected
C3_WitnessBoundary ==
    /\ FilterReturned
    /\ ~IsNone(call.target_breakeven)
    /\ call.strategy = "put"
    /\ \E i \in DOMAIN options :
         /\ options[i].strike - options[i].lastPrice = Val(call.target_breakeven)
         /\ 100 * options[i].lastPrice <= call.investment_amount
         /\ ~Returned(options[i])
    /\ Len(call.result.value) = 1

\* C4: cost and breakeven of every candidate are the table's, and
\* remaining_budget = investment_amount - cost
C4_TableCostAndBreakeven ==
    FilterReturned
    => \A j \in DOMAIN call.result.value :
         LET c == call.result.value[j] IN
         /\ c.premium = c.option_data.lastPrice
         /\ c.strike = c.option_data.strike
         /\ c.cost = TableCost(call.strategy, c.strike, c.premium, CallS)
         /\ c.breakeven = TableBreakeven(call.strategy, c.strike, c.premium, CallS)
         /\ c.remaining_budget = call.investment_amount - c.cost

\* a covered call candidate whose premium, strike and underlying price differ
C4_WitnessCoveredCall ==
    /\ FilterReturned
    /\ call.strategy = "covered_call"
    /\ \E j \in DOMAIN call.result.value :
         LET c == call.result.value[j] IN
         /\ c.premium > 0
         /\ c.strike # Val(call.stock_price)
         /\ Val(call.stock_price) > c.premium
         /\ c.remaining_budget > 0

\* ---------------------------------------------------- ranker and evaluator
TableProfit(strategy, K, P, S, F) ==
    LET up == IF F > K THEN F - K ELSE 0
        down == IF K > F THEN K - F ELSE 0
    IN  IF strategy = "call" THEN up - P
        ELSE IF strategy = "put" THEN down - P
        ELSE IF strategy = "covered_call" THEN (F - S) + P - up
        ELSE P - down

TableBase(strategy, K, P, S) ==
    IF strategy \in {"call", "put"} THEN P
    ELSE IF strategy = "covered_call" THEN S
    ELSE K

\* main ran the ranker
Ranked == pc \in {"option_prompt", "done", "crashed"} \/ options_by_return # << >>

MainS == IF IsNone(stock_price) THEN 0 ELSE Val(stock_price)

\* the position in the filter's output of the candidate behind a ranked result
FilterPos(r) ==
    CHOOSE i \in DOMAIN filtered_options :
        filtered_options[i].option_data = r.option_data

\* C5: the ranker's output is a permutation of the filter's candidates, in
\* non-increasing annualized_return, candidates of equal return in the
\* filter's order and so in ascending strike
C5_RankedPermutationSortedStable ==
    Ranked
    => LET out == options_by_return IN
       /\ Len(out) = Len(filtered_options)
       /\ \A j \in DOMAIN out :
            /\ \E i \in DOMAIN filtered_options :
                 /\ filtered_options[i].option_data = out[j].option_data
                 /\ filtered_options[i].strike = out[j].strike
                 /\ filtered_options[i].premium = out[j].premium
                 /\ filtered_options[i].breakeven = out[j].breakeven
       /\ \A j, k \in DOMAIN out :
            j < k => /\ out[j].option_data # out[k].option_data
                     /\ ~AnnLT(out[j].annualized_return, out[k].annualized_return)
                     /\ (out[j].annualized_return = out[k].annualized_return
                         => /\ FilterPos(out[j]) < FilterPos(out[k])
                            /\ out[j].strike <= out[k].strike)

\* two ranked candidates of different strike and one non-zero return
C5_WitnessTie ==
    /\ pc = "option_prompt"
    /\ Len(options_by_return) = 2
    /\ options_by_return[1].annualized_return = options_by_return[2].annualized_return
    /\ options_by_return[1].strike < options_by_return[2].strike
    /\ options_by_return[1].annualized_return # AnnualizedZero

\* C6: the ranker's profit is the table's profit and its percent return is
\* that profit over the table's return base, S being the entry price
C6_RankerFollowsTable ==
    Ranked
    => \A j \in DOMAIN options_by_return :
         LET r == options_by_return[j]
             strategy == Val(selected_strategy)
             profit == TableProfit(strategy, r.strike, r.premium, MainS,
                                   Val(future_price))
             base == TableBase(strategy, r.strike, r.premium, MainS)
         IN  /\ r.profit = profit
             /\ base > 0 => r.percent_return = Rat(100 * profit, base)

\* C7: the evaluator reports for the chosen contract the profit,
\* percent_return and annualized_return the ranker reported for it
C7_EvaluatorAgreesWithRanker ==
    pc \in {"done", "crashed"}
    => /\ pc = "done"
       /\ Val(future_results).profit = Val(option_choice).profit
       /\ Val(future_results).percent_return = Val(option_choice).percent_return
       /\ Val(future_results).annualized_return
              = Val(option_choice).annualized_return

\* C8: with a return base <= 0 the ranker and the evaluator report percent
\* return 0 and annualized return 0, and the evaluator completes
C8_DegenerateBaseReportsZero ==
    /\ Ranked
       => \A j \in DOMAIN options_by_return :
            LET r == options_by_return[j] IN
            TableBase(Val(selected_strategy), r.strike, r.premium, MainS) <= 0
            => /\ r.percent_return = Zero
               /\ r.annualized_return = AnnualizedZero
    /\ (pc \in {"done", "crashed"}
        /\ TableBase(Val(selected_strategy), Val(option_choice).strike,
                     Val(option_choice).premium, MainS) <= 0)
       => /\ pc = "done"
          /\ Val(future_results).percent_return = Zero
          /\ Val(future_results).annualized_return = AnnualizedZero

\* ------------------------------------------------------------ failures
\* C9: a strategy outside the enumeration makes the filter, the ranker and
\* the evaluator fail with InvalidStrategy, and main hands them only the four
C9_InvalidStrategyRejected ==
    /\ (call.fn \in {"filter", "ranker", "evaluator"}
        /\ call.strategy \notin Strategies)
       => call.result.error = "InvalidStrategy"
    /\ pc \in {"amount_prompt", "price_prompt", "option_prompt", "exited",
               "done", "crashed"}
       => selected_strategy \in {Some(st) : st \in Strategies}

\* C10: covered_call without an underlying price fails with
\* MissingUnderlyingPrice in the filter, main stops before filtering and
\* names the missing price, and the other strategies do not fail
C10_MissingUnderlyingPrice ==
    /\ (call.fn = "filter" /\ call.strategy = "covered_call"
        /\ IsNone(call.stock_price))
       => call.result.error = "MissingUnderlyingPrice"
    /\ (call.fn = "filter" /\ call.strategy \in Strategies \ {"covered_call"}
        /\ IsNone(call.stock_price))
       => call.result.error = "none"
    /\ (pc \in {"option_prompt", "exited", "done", "crashed"}
        /\ selected_strategy = Some("covered_call") /\ IsNone(stock_price))
       => /\ pc = "exited"
          /\ exit_message = Some("stock_price_required")
          /\ exit_status = Some(1)
          /\ filtered_options = << >>
    /\ (pc \in {"option_prompt", "exited", "done", "crashed"}
        /\ selected_strategy # Some("covered_call") /\ IsNone(stock_price))
       => exit_message # Some("stock_price_required")

\* ------------------------------------------------------- days to expiration
\* max(1, expirationDate - evaluationDate)
ExpectedDays ==
    IF selected_expiration - today >= 1 THEN selected_expiration - today ELSE 1

\* C11: the ranker and the evaluator use the same days_to_expiration,
\* max(1, expiration - today), never 0 or negative (a ranked return whose
\* power has base 0 or 1 carries no day count)
C11_DaysFlooredAndShared ==
    /\ Ranked
       => \A j \in DOMAIN options_by_return :
            LET a == options_by_return[j].annualized_return IN
            a.days # 0 => (a.days = ExpectedDays /\ a.days >= 1)
    /\ pc = "done"
       => LET r == Val(future_results) IN
          /\ r.days_to_expiration = ExpectedDays
          /\ r.days_to_expiration >= 1
          /\ r.annualized_return.days # 0
             => r.annualized_return.days = r.days_to_expiration

\* an expiration in the past: ranker and evaluator both used one day
C11_WitnessPast ==
    /\ pc = "done"
    /\ selected_expiration < today
    /\ Val(option_choice).annualized_return.days = 1
    /\ Val(future_results).days_to_expiration = 1
    /\ Val(future_results).annualized_return.days = 1

\* ------------------------------------------------------------ empty result
\* some row of the chain qualifies for the criteria of the direct call
SomeRowQualifies ==
    \E i \in DOMAIN options :
        /\ TableCost(call.strategy, options[i].strike,
                     options[i].lastPrice, CallS) <= call.investment_amount
        /\ Admissible(call.strategy,
                      TableBreakeven(call.strategy, options[i].strike,
                                     options[i].lastPrice, CallS),
                      call.target_breakeven)

\* what the filter returns for the criteria main has collected
MainFilterResult ==
    filter_options_by_investment(options, Val(selected_strategy),
                                 Val(investment_amount), stock_price, None)

\* C12: an empty result is a normal outcome: the filter returns the empty
\* sequence without raising when the chain is empty or no contract
\* qualifies (so with investment_amount = 0 and contracts of positive cost),
\* and main then reports no matches and exits with status 0 before the
\* ranker and the evaluator
C12_EmptyResultIsNormal ==
    /\ (call.fn = "filter" /\ options = << >>) => call.result = Ok(<< >>)
    /\ (call.fn = "filter" /\ call.strategy \in Strategies
          /\ (call.strategy = "covered_call" => ~IsNone(call.stock_price)))
       => /\ call.result.error = "none"
          /\ call.result.value = << >> <=> ~SomeRowQualifies
          /\ (call.investment_amount = 0
                /\ \A i \in DOMAIN options :
                     TableCost(call.strategy, options[i].strike,
                               options[i].lastPrice, CallS) > 0)
             => call.result = Ok(<< >>)
    /\ exit_message = Some("no_matches")
       => /\ pc = "exited"
          /\ exit_status = Some(0)
          /\ MainFilterResult = Ok(<< >>)
          /\ filtered_options = << >>
          /\ options_by_return = << >>
          /\ option_choice = None
          /\ future_results = None
    /\ pc \in {"option_prompt", "done", "crashed"}
       => /\ filtered_options # << >>
          /\ filtered_options = MainFilterResult.value
          /\ exit_message # Some("no_matches")
    /\ (pc = "exited" /\ exit_message # Some("no_matches"))
       => \/ exit_message = Some("stock_price_required")
          \/ exit_message = Some("exiting") /\ filtered_options # << >>

\* main stopped with no matches on a chain that has contracts
C12_WitnessNoMatches ==
    /\ exit_message = Some("no_matches")
    /\ exit_status = Some(0)
    /\ options # << >>
    /\ MainFilterResult = Ok(<< >>)

\* --------------------------------------------------------- worked example
\* the evaluator was given the cash secured put of strike 40 and premium 1
\* at the future price 35
ExampleCase ==
    /\ call.fn = "evaluator"
    /\ call.strategy = "cash_secured_put"
    /\ call.ranked.strike = 40
    /\ call.ranked.premium = 1
    /\ call.future_price = 35

\* C13: for a cash secured put of strike 40 and premium 1 at the future
\* price 35 the evaluator and the ranker both give value -5, profit -4,
\* return base 40 and percent return -10
C13_CashSecuredPutExample ==
    ExampleCase
    => /\ call.result.error = "none"
       /\ call.result.value.value_at_expiration = -5
       /\ call.result.value.profit = -4
       /\ call.result.value.percent_return = Rat(-10, 1)
       /\ call.ranked.profit = -4
       /\ call.ranked.percent_return = Rat(-10, 1)
       /\ call.ranked.profit - call.ranked.premium = -5
       /\ Rat(call.ranked.profit * 100, 40) = call.ranked.percent_return
       /\ Rat(call.result.value.profit * 100, 40)
            = call.result.value.percent_return

\* the example evaluated after the filter kept the contract and the ranker
\* ranked it
C13_WitnessExample ==
    /\ ExampleCase
    /\ call.result.error = "none"
    /\ call.result.value.profit = -4
    /\ call.ranked.profit = -4

\* ---------------------------------------------------- incomplete contracts
Whole(option) == ~unknown(option, "strike") /\ ~unknown(option, "lastPrice")

\* C14: a contract whose strike or premium is unknown does not abort the
\* batch: the filter and the ranker return, and every other contract is
\* still evaluated (the ranker returns each complete candidate, the filter
\* each complete contract within the budget)
C14_MalformedContractIsLocal ==
    /\ call.fn = "filter"
       => /\ call.result.error = "none"
          /\ \A i \in DOMAIN options :
               (Whole(options[i])
                  /\ TableCost(call.strategy, options[i].strike,
                               options[i].lastPrice, CallS)
                       <= call.investment_amount)
               => Returned(options[i])
    /\ call.fn = "ranker"
       => /\ call.result.error = "none"
          /\ \A i \in DOMAIN options : Whole(options[i]) => Returned(options[i])

\* --------------------------------------------------------------- breakeven
\* C15: the breakeven stored by the filter is a zero-profit point: ranked or
\* evaluated at a future price equal to its breakeven, a contract's profit
\* is exactly 0, for every strategy
C15_BreakevenIsZeroProfit ==
    /\ Ranked
       => \A j \in DOMAIN options_by_return :
            options_by_return[j].breakeven = Val(future_price)
            => options_by_return[j].profit = 0
    /\ (pc = "done" /\ Val(option_choice).breakeven = Val(future_price))
       => Val(future_results).profit = 0

\* ------------------------------------------------------- announced bounds
\* the summary and the report of one contract both exist
Reported ==
    /\ call.fn = "scenario"
    /\ call.summary.error = "none"
    /\ call.result.error = "none"

\* the evaluator returns exactly the profit p at some future price, the
\* other arguments as in the call
AttainedAt(p) ==
    \E F \in Prices :
        LET r == calculate_option_value(call.strategy, F, call.selected_data,
                                        selected_expiration, today, call.numeric)
        IN  r.error = "none" /\ r.value.profit = p

\* C16: the bounds of the strategy summary bound the evaluator's profit at
\* every future price from 0: at least -premium for call and put, at most
\* strike - premium for put, at most strike - entry price + premium for
\* covered_call, between -(strike - premium) and premium for
\* cash_secured_put; each bound is the profit at some future price
C16_AnnouncedBoundsHold ==
    Reported
    => LET profit == call.result.value.profit
           K == call.result.value.strike
           P == call.result.value.premium
           S == call.selected_data.stock_price
           b == call.summary.value
       IN  /\ call.strategy \in {"call", "put"}
              => /\ b.maximum_loss = Some(P)
                 /\ profit >= -P
                 /\ AttainedAt(-P)
           /\ call.strategy = "call" => b.maximum_profit = None
           /\ call.strategy = "put"
              => /\ b.maximum_profit = Some(K - P)
                 /\ profit <= K - P
                 /\ AttainedAt(K - P)
           /\ call.strategy = "covered_call"
              => /\ b.maximum_profit = Some(K - Val(S) + P)
                 /\ profit <= K - Val(S) + P
                 /\ AttainedAt(K - Val(S) + P)
           /\ call.strategy = "cash_secured_put"
              => /\ b.maximum_loss = Some(K - P)
                 /\ b.maximum_profit = Some(P)
                 /\ -(K - P) <= profit
                 /\ profit <= P
                 /\ AttainedAt(-(K - P))
                 /\ AttainedAt(P)

\* a covered call above its strike: the profit stays at the announced maximum
C16_WitnessCapped ==
    /\ Reported
    /\ call.strategy = "covered_call"
    /\ call.future_price > call.result.value.strike
    /\ call.result.value.profit = Val(call.summary.value.maximum_profit)

\* ------------------------------------------------------- pipeline ordering
\* the evaluator ran on a ranked result of a non-empty filter result
EvaluatedAfterRanking ==
    /\ pc \in {"done", "crashed"}
       => /\ filtered_options # << >>
          /\ Len(options_by_return) = Len(filtered_options)
          /\ \E n \in 1..Len(options_by_return) :
               option_choice = Some(options_by_return[n])
          /\ pc = "done"
             => /\ Val(future_results).strike = Val(option_choice).strike
                /\ Val(future_results).premium = Val(option_choice).premium
                /\ Val(future_results).future_price = Val(future_price)
    /\ pc \notin {"done", "crashed"}
       => (option_choice = None /\ future_results = None)
    /\ exit_message = Some("exiting")
       => (pc = "exited" /\ exit_status = Some(0) /\ filtered_options # << >>)

\* what one answer to the selection prompt does
SelectionEffect(choice_input) ==
    LET n == choice_input.v IN
    IF choice_input.form = "q"
    THEN pc' = "exited" /\ exit_status' = Some(0)
         /\ option_choice' = None /\ future_results' = None
    ELSE IF choice_input.form = "int" /\ 1 <= n /\ n <= Len(options_by_return)
    THEN /\ pc' \in {"done", "crashed"}
         /\ option_choice' = Some(options_by_return[n])
         /\ pc' = "done"
            => \E numeric \in NumericTypes :
                 Ok(Val(future_results')) =
                     calculate_option_value(
                         Val(selected_strategy), Val(future_price),
                         selected_data_of(Val(selected_strategy), stock_price,
                                          options_by_return[n]),
                         selected_expiration, today, numeric)
    ELSE pc' = "option_prompt" /\ option_choice' = None
         /\ future_results' = None /\ exit_status' = None

\* C17: main reaches the evaluator only after the filter returned a
\* non-empty list and the ranker ran; the contract evaluated is the ranker's
\* output at the 1-based number typed; a number out of range or text that is
\* no number leaves the selection unset and prompts again; q stops main with
\* status 0 and nothing evaluated
C17_PipelineOrdering ==
    /\ []EvaluatedAfterRanking
    /\ [][\A choice_input \in ChoiceInputs :
            SelectionEffect(choice_input) \/ ~SelectOptionInput(choice_input)]_vars

\* the second entry of the ranking was chosen and evaluated, and it is not
\* the second candidate of the filter
C17_WitnessSecondRanked ==
    /\ pc = "done"
    /\ Len(options_by_return) = 2
    /\ option_choice = Some(options_by_return[2])
    /\ options_by_return[2].option_data = filtered_options[1].option_data

====
